---- MODULE Spec2Model ----
(***************************************************************************)
(* A model of the distance-calibrated node2vec engine of                   *)
(* path_approximation/src/modified_node2vec.py: Node2vec.__init__,         *)
(* Node2vec.sample, Node2vec.loss and the epoch loop of                    *)
(* Node2vecModel.train.                                                    *)
(*                                                                         *)
(* Tensors are sequences: a 1-D tensor is a sequence of integers, a 2-D    *)
(* tensor a sequence of rows, a 3-D tensor a sequence of sequences of      *)
(* rows.  Python indices are 0-based and are kept 0-based in the values    *)
(* (node ids, edge ids); only positions in TLA+ sequences are 1-based.     *)
(*                                                                         *)
(* Randomness (the walk's choice of an out-edge, torch.randint) comes from  *)
(* the process's global generator: a seed, which is an input of the run,   *)
(* and a count of the draws made so far.  The DataLoader's shuffle is a    *)
(* nondeterministic permutation.                                           *)
(***************************************************************************)
EXTENDS Integers, Sequences, FiniteSets, TLC

VARIABLES
    args,         \* the arguments of the run: constructor and train() arguments
    seed,         \* the seed of the random generator (an input)
    rng,          \* the generator's state: draws consumed so far
    pc,           \* where the run is
    embRows,      \* number of rows of Node2vec.embedding (0: not created)
    embVersion,   \* per embedding row, how many optimizer steps changed it
    batch,        \* the batch of start nodes handed to sample
    walk_traces,  \* node2vec_random_walk's traces of the last sample call
    walk_eids,    \* node2vec_random_walk's edge ids of the last sample call
    pos_traces,   \* sample's first result
    pos_dists,    \* sample's second result
    neg_traces,   \* sample's third result
    lookups,      \* the ids the last loss call handed to self.embedding
    epoch,        \* i of train's for loop
    order,        \* the batches of the current epoch still to be served
    optSteps,     \* optimizer.step() calls so far
    epochOptSteps,\* optimizer.step() calls of the current epoch
    schedSteps,   \* scheduler.step() calls made by train
    evalRuns,     \* the epochs (i) in which _evaluate_step was called
    c,            \* Node2vec.c, the decoder scalar (0: not set)
    ops,          \* the calls _train_step made in the current epoch, in order
    served,       \* the batches the loader has served in the current epoch
    output_path,  \* run_node2vec's output_path, once write_file was called
    written,      \* the objects write_file has dumped, in order
    dist,         \* a distance d >= 0, as a fraction (an input)
    target,       \* the loss's target similarity for dist
    decoded       \* the heuristic's inverse mapping of target

\* the variables of the persistence and decoder steps
ioVars == <<output_path, written>>
decVars == <<dist, target, decoded>>

vars == <<args, seed, rng, pc, embRows, embVersion, batch, walk_traces,
          walk_eids, pos_traces, pos_dists, neg_traces, lookups, epoch,
          order, optSteps, epochOptSteps, schedSteps, evalRuns, c, ops,
          served, ioVars, decVars>>

-----------------------------------------------------------------------------
(* Bounds of the model *)

MaxWalkLength == 3
MaxRepeat == 2
MaxBatch == 2
MaxSeed == 4
MaxEpochs == 2

(* The value dgl's node2vec_random_walk pads a stopped walk with, in the   *)
(* traces and in the edge ids; loss prints the rows holding it.            *)
PAD == -1

-----------------------------------------------------------------------------
(* Graphs: N nodes 0..N-1, edges in edge-id order (edge id = position-1),  *)
(* each with its 'length' edge feature.                                    *)

Edge(s, d, l) == [src |-> s, dst |-> d, length |-> l]

\* the ids of the edges leaving node v, in edge-id order
OutEdgeIds(edges, v) ==
    LET ids == {e \in 0 .. (Len(edges) - 1) : edges[e + 1].src = v}
        F[k \in 0 .. Cardinality(ids)] ==
            IF k = 0 THEN <<>>
            ELSE Append(F[k - 1],
                        CHOOSE e \in ids :
                            Cardinality({x \in ids : x < e}) = k - 1)
    IN F[Cardinality(ids)]

Graph(n, edges) ==
    [N |-> n, edges |-> edges,
     out |-> [v \in 0 .. (n - 1) |-> OutEdgeIds(edges, v)]]

\* a directed 3-ring: every node has exactly one outgoing edge
GRing == Graph(3, <<Edge(0, 1, 1), Edge(1, 2, 2), Edge(2, 0, 3)>>)
\* node 2 has no outgoing edge
GDeadEnd == Graph(3, <<Edge(0, 1, 4), Edge(0, 2, 1), Edge(1, 2, 2)>>)
\* two parallel edges 0->1 of different lengths
GMulti == Graph(2, <<Edge(0, 1, 1), Edge(0, 1, 5), Edge(1, 0, 2)>>)

Graphs == {GRing, GDeadEnd, GMulti}

Nodes(g) == 0 .. (g.N - 1)
OutEdges(g, v) == g.out[v]
HasDeadEnd(g) == \E v \in Nodes(g) : OutEdges(g, v) = <<>>

-----------------------------------------------------------------------------
(* Tensor helpers *)

RECURSIVE Flatten(_)
\* the elements of a sequence of sequences, row-major
Flatten(rows) ==
    IF rows = <<>> THEN <<>> ELSE Head(rows) \o Flatten(Tail(rows))

\* t.view(-1, w) of a flat tensor: consecutive rows of w elements
View(flat, w) ==
    [r \in 1 .. (Len(flat) \div w) |->
        [col \in 1 .. w |-> flat[(r - 1) * w + col]]]

\* a tensor of the same length holding the first element only
RepeatFirst(t, k) == [j \in 1 .. (Len(t) * k) |-> t[1]]

\* Tensor.repeat(k) on a 1-D tensor: k copies, one after the other
Repeat(t, k) == [j \in 1 .. (Len(t) * k) |-> t[((j - 1) % Len(t)) + 1]]

\* Unfold with the last window of every row lost
UnfoldDropLast(rows, size) ==
    [r \in 1 .. Len(rows) |->
        [k \in 1 .. (Len(rows[r]) - size) |->
            SubSeq(rows[r], k, k + size - 1)]]

\* Tensor.unfold(1, size, 1) on a 2-D tensor: per row, every window of
\* `size` consecutive elements, stride 1
Unfold(rows, size) ==
    [r \in 1 .. Len(rows) |->
        [k \in 1 .. (Len(rows[r]) - size + 1) |->
            SubSeq(rows[r], k, k + size - 1)]]

\* t[i] of a 1-D tensor for a tensor index i: a negative index counts from
\* the end
PyIndex(t, i) == IF i < 0 THEN t[Len(t) + i + 1] ELSE t[i + 1]

-----------------------------------------------------------------------------
(* Randomness *)

\* the generator's ctr-th raw output under seed sd (a counter-based generator)
RngRaw(sd, ctr) == (((ctr + sd) * (ctr + sd + 1)) \div 2 + sd) % 5
\* the generator's state after k more draws (its outputs repeat with period 5)
RngAdvance(ctr, k) == (ctr + k) % 5
\* the k-th draw (k = 0, 1, ...) from state ctr, in 0..n-1
Draw(sd, ctr, k, n) == RngRaw(sd, RngAdvance(ctr, k)) % n

-----------------------------------------------------------------------------
(* dgl.sampling.node2vec_random_walk(g, nodes, p, q, walk_length, prob,    *)
(* return_eids=True): per start node a trace of walk_length+1 node ids     *)
(* and the walk_length ids of the edges taken.  p, q and prob weigh the    *)
(* choice of the next edge; every out-edge can be chosen.  A walk that     *)
(* reaches a node without out-edges stops, and the rest of its trace and   *)
(* of its edge ids is PAD.                                                 *)

RECURSIVE WalkFrom(_, _, _, _, _, _)
WalkFrom(g, cur, left, sd, d, k) ==
    IF left = 0 THEN [nodes |-> <<>>, eids |-> <<>>]
    ELSE IF cur = PAD \/ OutEdges(g, cur) = <<>>
    THEN LET rest == WalkFrom(g, PAD, left - 1, sd, d, k + 1)
         IN [nodes |-> <<PAD>> \o rest.nodes, eids |-> <<PAD>> \o rest.eids]
    ELSE LET out  == OutEdges(g, cur)
             e    == out[Draw(sd, d, k, Len(out)) + 1]
             nxt  == g.edges[e + 1].dst
             rest == WalkFrom(g, nxt, left - 1, sd, d, k + 1)
         IN [nodes |-> <<nxt>> \o rest.nodes, eids |-> <<e>> \o rest.eids]

node2vec_random_walk(g, nodes, walk_length, sd, d) ==
    LET w == [r \in 1 .. Len(nodes) |->
                 WalkFrom(g, nodes[r], walk_length, sd, d,
                          (r - 1) * walk_length)]
    IN [traces |-> [r \in 1 .. Len(nodes) |-> <<nodes[r]>> \o w[r].nodes],
        eids   |-> [r \in 1 .. Len(nodes) |-> w[r].eids]]

\* draws in 0..high, the upper end included
randintInclusive(high, rows, cols, sd, d) ==
    [r \in 1 .. rows |->
        [col \in 1 .. cols |->
            Draw(sd, d, (r - 1) * cols + (col - 1), high + 1)]]

\* torch.randint(high, (rows, cols)): rows x cols draws in 0..high-1
randint(high, rows, cols, sd, d) ==
    [r \in 1 .. rows |->
        [col \in 1 .. cols |-> Draw(sd, d, (r - 1) * cols + (col - 1), high)]]

-----------------------------------------------------------------------------
(* Node2vec.sample(batch) *)

\* RollingWindow with the windows stacked offset by offset instead of row
\* by row
RollingWindowByOffset(t, size) ==
    LET u == Unfold(t, size)
        n == IF u = <<>> THEN 0 ELSE Len(u[1])
    IN View(Flatten(Flatten([k \in 1 .. n |->
                                [r \in 1 .. Len(u) |-> u[r][k]]])), size)

\* lines 103-104 and 112-113: rolling window, then view(-1, window_size)
RollingWindow(t, size) == View(Flatten(Flatten(Unfold(t, size))), size)

\* EdgeLengths reading the length of the edge before the one taken
EdgeLengthsShifted(g, edge_ids, walk_length) ==
    LET length == [e \in 1 .. Len(g.edges) |-> g.edges[e].length]
        flat   == Flatten(edge_ids)
    IN View([j \in 1 .. Len(flat) |-> PyIndex(length, flat[j] - 1)],
            walk_length)

\* line 98: g.edata['length'][edge_ids.long().view(-1)].view(-1, walk_length)
EdgeLengths(g, edge_ids, walk_length) ==
    LET length == [e \in 1 .. Len(g.edges) |-> g.edges[e].length]
        flat   == Flatten(edge_ids)
    IN View([j \in 1 .. Len(flat) |-> PyIndex(length, flat[j])], walk_length)

\* NegRows with the start ids as the last column
NegRowsStartLast(a, rep, sd, d) ==
    LET neg_batch == Repeat(rep, a.num_negatives)
        rnd == randint(a.g.N, Len(neg_batch), a.walk_length, sd, d)
    IN [r \in 1 .. Len(neg_batch) |-> rnd[r] \o <<neg_batch[r]>>]

\* NegRows with one row per positive walk, whatever num_negatives is
NegRowsOnePerWalk(a, rep, sd, d) ==
    LET rnd == randint(a.g.N, Len(rep), a.walk_length, sd, d)
    IN [r \in 1 .. Len(rep) |-> <<rep[r]>> \o rnd[r]]

\* NegRows with one random id fewer than a walk has steps
NegRowsShort(a, rep, sd, d) ==
    LET neg_batch == Repeat(rep, a.num_negatives)
        rnd == randint(a.g.N, Len(neg_batch), a.walk_length - 1, sd, d)
    IN [r \in 1 .. Len(neg_batch) |-> <<neg_batch[r]>> \o rnd[r]]

\* lines 109-111: the start ids, one column, before walk_length random ids
NegRows(a, rep, sd, d) ==
    LET neg_batch == Repeat(rep, a.num_negatives)
        rnd == randint(a.g.N, Len(neg_batch), a.walk_length, sd, d)
    IN [r \in 1 .. Len(neg_batch) |-> <<neg_batch[r]>> \o rnd[r]]

Sample(a, b, sd, d) ==
    LET rep   == Repeat(b, a.num_walks)
        walk  == node2vec_random_walk(a.g, rep, a.walk_length, sd, d)
        dists == EdgeLengths(a.g, walk.eids, a.walk_length)
        d2    == RngAdvance(d, Len(rep) * a.walk_length)
        neg   == NegRows(a, rep, sd, d2)
    IN [walk_traces |-> walk.traces,
        walk_eids   |-> walk.eids,
        pos_traces  |-> RollingWindow(walk.traces, a.window_size),
        pos_dists   |-> RollingWindow(dists, a.window_size - 1),
        neg_traces  |-> RollingWindow(neg, a.window_size),
        rng         |-> RngAdvance(d2, Len(neg) * a.walk_length)]

-----------------------------------------------------------------------------
(* Node2vec.loss(pos_trace, pos_dists, neg_trace) *)

\* the ids handed to self.embedding at lines 151, 152, 159 and 160
LossLookups(pos, neg) ==
    UNION {{pos[r][col] : col \in 1 .. Len(pos[r])} : r \in 1 .. Len(pos)} \cup
    UNION {{neg[r][col] : col \in 1 .. Len(neg[r])} : r \in 1 .. Len(neg)}

\* nn.Embedding raises IndexError for an index outside 0..num_embeddings-1
EmbeddingRaises(ids, rows) == \E id \in ids : id < 0 \/ id >= rows

-----------------------------------------------------------------------------
(* Node2vec.__init__ / Node2vecModel.__init__ *)

\* the assertion with the bound that unfold itself needs
ConstructorAssertionOffByOne(a) == a.walk_length + 1 >= a.window_size

\* line 56: assert walk_length >= window_size
ConstructorAssertion(a) == a.walk_length >= a.window_size

NoSample == <<>>
\* a value not computed yet; fractions are records [num, den]
NoFraction == <<>>
\* init_c of Node2vec.__init__ and Node2vecModel.__init__ when not given
DefaultInitC == 10

Construct ==
    /\ pc = "Idle"
    /\ IF ConstructorAssertion(args)
       THEN /\ embRows' = args.g.N + 1
            /\ embVersion' = [r \in 0 .. args.g.N |-> 0]
            /\ c' = args.init_c
            /\ pc' = "Constructed"
       ELSE /\ pc' = "AssertionError"
            /\ UNCHANGED <<embRows, embVersion, c>>
    /\ UNCHANGED <<ioVars, decVars, ops, served, args, seed,
                   rng, batch, walk_traces, walk_eids, pos_traces,
                   pos_dists, neg_traces, lookups, epoch, order, optSteps,
                   epochOptSteps, schedSteps, evalRuns>>

\* a direct call model.sample(batch)
SampleCall ==
    /\ pc = "Constructed"
    /\ LET s == Sample(args, batch, seed, rng)
       IN /\ walk_traces' = s.walk_traces
          /\ walk_eids' = s.walk_eids
          /\ pos_traces' = s.pos_traces
          /\ pos_dists' = s.pos_dists
          /\ neg_traces' = s.neg_traces
          /\ rng' = s.rng
    /\ pc' = "Sampled"
    /\ UNCHANGED <<ioVars, decVars, c, ops, served, args, seed,
                   embRows, embVersion, batch, lookups, epoch,
                   order, optSteps, epochOptSteps, schedSteps, evalRuns>>

\* a direct call model.loss(pos_traces, pos_dists, neg_traces) on the sample
LossCall ==
    /\ pc = "Sampled"
    /\ lookups' = LossLookups(pos_traces, neg_traces)
    /\ pc' = IF EmbeddingRaises(lookups', embRows) THEN "IndexError"
             ELSE "LossDone"
    /\ UNCHANGED <<ioVars, decVars, c, ops, served, args, seed,
                   rng, embRows, embVersion, batch, walk_traces,
                   walk_eids, pos_traces, pos_dists, neg_traces, epoch, order,
                   optSteps, epochOptSteps, schedSteps, evalRuns>>

\* the sequences over S of length 0..n
RECURSIVE SeqsUpTo(_, _)
SeqsUpTo(S, n) ==
    IF n = 0 THEN {<<>>}
    ELSE LET shorter == SeqsUpTo(S, n - 1)
         IN shorter \cup
            {Append(q, x) : q \in {p \in shorter : Len(p) = n - 1}, x \in S}

Distinct(q) == \A j, k \in 1 .. Len(q) : j # k => q[j] # q[k]

\* the batches a caller may hand to sample: distinct nodes, 1..MaxBatch long
Batches(g) == {q \in SeqsUpTo(Nodes(g), MaxBatch) : q # <<>> /\ Distinct(q)}

ArgSets ==
    [g : Graphs,
     walk_length : 2 .. MaxWalkLength,
     window_size : 2 .. MaxWalkLength,
     num_walks : 1 .. MaxRepeat,
     num_negatives : 1 .. MaxRepeat]

\* SpecSample calls sample and loss directly: train's arguments are unused,
\* the probe's are Node2vecModel's defaults
UntrainedArgs == [epochs |-> 0, batch_size |-> 1, eval_steps |-> -1,
                  eval_set |-> "None", init_c |-> DefaultInitC]

InitCommon ==
    /\ seed \in 0 .. MaxSeed
    /\ rng = 0
    /\ pc = "Idle"
    /\ embRows = 0
    /\ embVersion = <<>>
    /\ walk_traces = NoSample
    /\ walk_eids = NoSample
    /\ pos_traces = NoSample
    /\ pos_dists = NoSample
    /\ neg_traces = NoSample
    /\ lookups = {}
    /\ epoch = 0
    /\ order = <<>>
    /\ optSteps = 0
    /\ epochOptSteps = 0
    /\ schedSteps = 0
    /\ evalRuns = {}
    /\ c = 0
    /\ ops = <<>>
    /\ served = <<>>
    /\ output_path = "Unset"
    /\ written = <<>>
    /\ target = NoFraction
    /\ decoded = NoFraction

InitSample ==
    /\ \E a \in ArgSets : args = a @@ UntrainedArgs
    /\ batch \in Batches(args.g)
    /\ dist = NoFraction
    /\ InitCommon

NextSample == Construct \/ SampleCall \/ LossCall

SpecSample == InitSample /\ [][NextSample]_vars

-----------------------------------------------------------------------------
(* Node2vecModel.train(epochs, batch_size, learning_rate) *)

\* len(loader): the DataLoader over arange(N) keeps the last, shorter batch
NumBatches(a) == (a.g.N + a.batch_size - 1) \div a.batch_size

\* the batches of a loader that drops the last, shorter batch
LoaderBatchesDropLast(perm, batch_size) ==
    [k \in 1 .. (Len(perm) \div batch_size) |->
        SubSeq(perm, (k - 1) * batch_size + 1, k * batch_size)]

\* the batches the DataLoader serves for one shuffled order of arange(N)
LoaderBatches(perm, batch_size) ==
    LET n == Len(perm)
        last(k) == IF k * batch_size < n THEN k * batch_size ELSE n
    IN [k \in 1 .. ((n + batch_size - 1) \div batch_size) |->
            SubSeq(perm, (k - 1) * batch_size + 1, last(k))]

Shuffles(g) == {q \in SeqsUpTo(Nodes(g), g.N) : Len(q) = g.N /\ Distinct(q)}

\* the probe's conditions without the test of eval_set
ProbeDueWithoutEvalSet(a, i) ==
    /\ a.eval_steps > 0
    /\ a.epochs % a.eval_steps = 0

\* lines 309-311: does this iteration call _evaluate_step
ProbeDue(a, i) ==
    /\ a.eval_steps > 0
    /\ a.epochs % a.eval_steps = 0
    /\ a.eval_set # "None"

\* lines 296-306: the loader, the optimizer and the scheduler are made
TrainBegin ==
    /\ pc = "Constructed"
    /\ pc' = "LoopHead"
    /\ epoch' = 0
    /\ UNCHANGED <<ioVars, decVars, c, ops, served, args, seed,
                   rng, embRows, embVersion, batch, walk_traces,
                   walk_eids, pos_traces, pos_dists, neg_traces, lookups,
                   order, optSteps, epochOptSteps, schedSteps, evalRuns>>

\* line 307 with i < epochs, lines 259-261: _train_step starts to iterate
\* the loader, which shuffles the node ids
EpochBegin ==
    /\ pc = "LoopHead"
    /\ epoch < args.epochs
    /\ \E perm \in Shuffles(args.g) :
           order' = LoaderBatches(perm, args.batch_size)
    /\ epochOptSteps' = 0
    /\ ops' = <<>>
    /\ served' = <<>>
    /\ pc' = "InEpoch"
    /\ UNCHANGED <<ioVars, decVars, c, args, seed,
                   rng, embRows, embVersion, batch, walk_traces,
                   walk_eids, pos_traces, pos_dists, neg_traces, lookups,
                   epoch, optSteps, schedSteps, evalRuns>>

\* line 307 with the range exhausted: train returns
TrainEnd ==
    /\ pc = "LoopHead"
    /\ epoch >= args.epochs
    /\ pc' = "Done"
    /\ UNCHANGED <<ioVars, decVars, c, ops, served, args, seed,
                   rng, embRows, embVersion, batch, walk_traces,
                   walk_eids, pos_traces, pos_dists, neg_traces, lookups,
                   epoch, order, optSteps, epochOptSteps, schedSteps,
                   evalRuns>>

\* a call of _train_step's loop body, made when the optimizer had
\* completed `steps` steps
Call(name, steps) == [op |-> name, steps |-> steps]

\* the loop body with zero_grad after backward
BatchOpsZeroGradLate(steps, raised) ==
    IF raised THEN <<Call("loss", steps)>>
    ELSE <<Call("loss", steps), Call("backward", steps),
           Call("zero_grad", steps), Call("step", steps)>>

\* lines 265-270: the calls of one pass of the loop body, in program order;
\* an exception of loss ends the pass (and train) there
BatchOps(steps, raised) ==
    IF raised THEN <<Call("zero_grad", steps), Call("loss", steps)>>
    ELSE <<Call("zero_grad", steps), Call("loss", steps),
           Call("backward", steps), Call("step", steps)>>

\* the scalar as a parameter the optimizer updates
OptimizerStepOnCTrained(cc) == cc + 1

\* lines 77-78, 266-267, 271-272, 300, 303: self.c is a plain tensor, not
\* registered as a parameter, so it is not among model.parameters(), and
\* c_optimizer is None: an optimizer step leaves the scalar as it is
OptimizerStepOnC(cc) == cc

\* lines 261-273, one batch: the loader's collate_fn (sample), loss,
\* backward, optimizer.step().  An exception of loss leaves train.
\* SparseAdam changes the rows that have a gradient: the rows looked up.
BatchStep(decay) ==
    /\ pc = "InEpoch"
    /\ order # <<>>
    /\ batch' = Head(order)
    /\ order' = Tail(order)
    /\ served' = Append(served, Head(order))
    /\ LET s == Sample(args, Head(order), seed, rng)
       IN /\ walk_traces' = s.walk_traces
          /\ walk_eids' = s.walk_eids
          /\ pos_traces' = s.pos_traces
          /\ pos_dists' = s.pos_dists
          /\ neg_traces' = s.neg_traces
          /\ rng' = s.rng
    /\ lookups' = LossLookups(pos_traces', neg_traces')
    /\ ops' = ops \o BatchOps(optSteps, EmbeddingRaises(lookups', embRows))
    /\ LET ids == lookups'
       IN IF EmbeddingRaises(ids, embRows)
             THEN /\ pc' = "IndexError"
                  /\ UNCHANGED <<embVersion, optSteps, epochOptSteps,
                                 schedSteps>>
             ELSE /\ pc' = "InEpoch"
                  /\ embVersion' = [r \in DOMAIN embVersion |->
                                       IF r \in ids THEN embVersion[r] + 1
                                       ELSE embVersion[r]]
                  /\ optSteps' = optSteps + 1
                  /\ epochOptSteps' = epochOptSteps + 1
                  /\ schedSteps' = schedSteps + decay
    /\ c' = IF EmbeddingRaises(lookups', embRows) THEN c
            ELSE OptimizerStepOnC(c)
    /\ UNCHANGED <<ioVars, decVars, args, seed, embRows, epoch, evalRuns>>

\* the batch step with scheduler.step() inside the batch loop
TrainStepBatchDecaying == BatchStep(1)

TrainStepBatch == BatchStep(0)

\* the probe fitting the rows of its nodes in place
EvalPhaseTraining ==
    /\ pc = "InEpoch"
    /\ order = <<>>
    /\ IF ProbeDue(args, epoch)
       THEN /\ evalRuns' = evalRuns \cup {epoch}
            /\ embVersion' = [r \in DOMAIN embVersion |->
                                 IF r < args.g.N THEN embVersion[r] + 1
                                 ELSE embVersion[r]]
            /\ pc' = IF args.eval_set = "OneClass" THEN "ValueError"
                     ELSE "Evaluated"
       ELSE /\ pc' = "Evaluated"
            /\ UNCHANGED <<evalRuns, embVersion>>
    /\ UNCHANGED <<ioVars, decVars, c, ops, served, args, seed,
                   rng, embRows, batch, walk_traces,
                   walk_eids, pos_traces, pos_dists, neg_traces, lookups,
                   epoch, order, optSteps, epochOptSteps, schedSteps>>

\* lines 309-315, after _train_step returned: the probe, when due.
\* evaluate (lines 186-198) reads the rows of its nodes under no_grad.
\* LogisticRegression.fit raises ValueError for labels of a single class.
EvalPhase ==
    /\ pc = "InEpoch"
    /\ order = <<>>
    /\ IF ProbeDue(args, epoch)
       THEN /\ evalRuns' = evalRuns \cup {epoch}
            /\ pc' = IF args.eval_set = "OneClass" THEN "ValueError"
                     ELSE "Evaluated"
       ELSE /\ pc' = "Evaluated"
            /\ UNCHANGED evalRuns
    /\ UNCHANGED <<ioVars, decVars, c, ops, served, args, seed,
                   rng, embRows, embVersion, batch, walk_traces,
                   walk_eids, pos_traces, pos_dists, neg_traces, lookups,
                   epoch, order, optSteps, epochOptSteps, schedSteps>>

\* line 317, and the for loop's next i
SchedulerStep ==
    /\ pc = "Evaluated"
    /\ schedSteps' = schedSteps + 1
    /\ epoch' = epoch + 1
    /\ pc' = "LoopHead"
    /\ UNCHANGED <<ioVars, decVars, c, ops, served, args, seed,
                   rng, embRows, embVersion, batch, walk_traces,
                   walk_eids, pos_traces, pos_dists, neg_traces, lookups,
                   order, optSteps, epochOptSteps, evalRuns>>

\* run_node2vec's output_path argument: None (the default), a path with a
\* folder part, a bare file name
OutputPaths == {"None", "out/emb.pkl", "emb.pkl"}

\* os.path.dirname of an output path
dirname(path) == IF path = "out/emb.pkl" THEN "out" ELSE ""

\* data_helper.py lines 198-206, write_file(output_path, obj) on the files
\* written so far.  For a path without a folder part dirname is "",
\* os.path.exists("") is False and os.makedirs("") raises
\* FileNotFoundError, before the file is opened.
write_file(path, obj, files) ==
    IF path = "None" THEN [raised |-> "None", files |-> files]
    ELSE IF dirname(path) = ""
         THEN [raised |-> "FileNotFoundError", files |-> files]
         ELSE [raised |-> "None", files |-> Append(files, obj)]

\* run_node2vec lines 360-372, after trainer.train returned: the whole
\* weight matrix is read (trainer.embedding(), nodes=None) and handed to
\* write_file.  run_node2vec builds its trainer with eval_steps=1 (line 357).
SaveEmbedding ==
    /\ pc = "Done"
    /\ args.eval_steps = 1
    /\ \E path \in OutputPaths :
           LET w == write_file(path, embVersion, written)
           IN /\ output_path' = path
              /\ written' = w.files
              /\ pc' = IF w.raised = "None" THEN "Returned" ELSE w.raised
    /\ UNCHANGED <<decVars, c, ops, served, args, seed,
                   rng, embRows, embVersion, batch, walk_traces,
                   walk_eids, pos_traces, pos_dists, neg_traces, lookups,
                   epoch, order, optSteps, epochOptSteps, schedSteps,
                   evalRuns>>

\* (eval_steps, eval_set): the probe off by its interval, off for want of
\* an eval_set, on with intervals 1 and 2, and on with labels of one class
EvalConfigs ==
    {<<-1, "TwoClasses">>, <<1, "None">>, <<1, "TwoClasses">>,
     <<2, "TwoClasses">>, <<1, "OneClass">>}

\* (walk_length, window_size) of the training runs, one of them refused by
\* the constructor; num_walks and num_negatives are 1
TrainShapes == {<<2, 2>>, <<3, 2>>, <<2, 3>>}

TrainArgSets ==
    {[g |-> gr, walk_length |-> sh[1], window_size |-> sh[2],
      num_walks |-> 1, num_negatives |-> 1,
      epochs |-> e, batch_size |-> bs,
      eval_steps |-> ev[1], eval_set |-> ev[2],
      init_c |-> DefaultInitC] :
        gr \in Graphs, sh \in TrainShapes, e \in 0 .. MaxEpochs,
        bs \in 1 .. MaxBatch, ev \in EvalConfigs}

Init ==
    /\ args \in TrainArgSets
    /\ batch = <<>>
    /\ dist = NoFraction
    /\ InitCommon

Next ==
    \/ Construct
    \/ TrainBegin
    \/ EpochBegin
    \/ TrainStepBatch
    \/ EvalPhase
    \/ SchedulerStep
    \/ TrainEnd
    \/ SaveEmbedding

Spec == Init /\ [][Next]_vars

-----------------------------------------------------------------------------
(* The decoder: the loss's target similarity and the routing heuristic *)

\* the bounds of the decoder's inputs: init_c in 1..MaxInitC, distances
\* n/m with n in 0..MaxDist and m in 1..MaxDenominator
MaxInitC == 3
MaxDist == 3
MaxDenominator == 2

\* the rational number n/m; the decoder's values are kept exact
Frac(n, m) == [num |-> n, den |-> m]
FracEq(a, b) == a.num * b.den = b.num * a.den

\* the edge lengths the loss may meet: non-negative fractions
Distances == {Frac(n, m) : n \in 0 .. MaxDist, m \in 1 .. MaxDenominator}

\* line 165: torch.div(self.c, self.c + pos_dists), for one distance d:
\* cc / (cc + n/m) = cc*m / (cc*m + n)
TargetSimilarity(cc, d) == Frac(cc * d.den, cc * d.den + d.num)

\* the inverse without the factor init_c
InverseSimilarityUnscaled(init_c, s) ==
    IF s.num = 0 THEN Frac(0, 1)
    ELSE Frac(s.den - s.num, s.num)

\* testing_functions.py lines 206-209, for the similarity s = num/den:
\* 0 if s == 0, else init_c*(1-s)/s = init_c*(den-num)/num
InverseSimilarity(init_c, s) ==
    IF s.num = 0 THEN Frac(0, 1)
    ELSE Frac(init_c * (s.den - s.num), s.num)

\* the target of line 165 is computed for the distance dist
LossTarget ==
    /\ pc = "Constructed"
    /\ target' = TargetSimilarity(c, dist)
    /\ pc' = "Targeted"
    /\ UNCHANGED <<ioVars, dist, decoded, c, ops, served, args, seed,
                   rng, embRows, embVersion, batch, walk_traces,
                   walk_eids, pos_traces, pos_dists, neg_traces, lookups,
                   epoch, order, optSteps, epochOptSteps, schedSteps,
                   evalRuns>>

\* lines 206-209 of dot_heuristic applied to the target similarity, with
\* config["node2vec"]["init_c"], the init_c the model was built with
InverseMapping ==
    /\ pc = "Targeted"
    /\ decoded' = InverseSimilarity(args.init_c, target)
    /\ pc' = "Decoded"
    /\ UNCHANGED <<ioVars, dist, target, c, ops, served, args, seed,
                   rng, embRows, embVersion, batch, walk_traces,
                   walk_eids, pos_traces, pos_dists, neg_traces, lookups,
                   epoch, order, optSteps, epochOptSteps, schedSteps,
                   evalRuns>>

\* a call dot_heuristic(x, y), testing_functions.py lines 204-209, for any
\* two nodes of the graph.  Line 205 evaluates np.sigmoid, and the module numpy
\* (imported as np, line 5) has no attribute sigmoid: the call raises
\* AttributeError before the dot product is taken, for every pair.
HeuristicCall ==
    /\ pc \in {"Constructed", "Decoded"}
    /\ pc' = "AttributeError"
    /\ UNCHANGED <<ioVars, decVars, c, ops, served, args, seed,
                   rng, embRows, embVersion, batch, walk_traces,
                   walk_eids, pos_traces, pos_dists, neg_traces, lookups,
                   epoch, order, optSteps, epochOptSteps, schedSteps,
                   evalRuns>>

\* the models the decoder is exercised with: init_c > 0 on the ring
DecoderArgSets ==
    {[g |-> GRing, walk_length |-> 2, window_size |-> 2,
      num_walks |-> 1, num_negatives |-> 1,
      epochs |-> 0, batch_size |-> 1,
      eval_steps |-> -1, eval_set |-> "None",
      init_c |-> ic] : ic \in 1 .. MaxInitC}

InitDecoder ==
    /\ args \in DecoderArgSets
    /\ batch = <<>>
    /\ dist \in Distances
    /\ InitCommon

NextDecoder == Construct \/ LossTarget \/ InverseMapping \/ HeuristicCall

SpecDecoder == InitDecoder /\ [][NextDecoder]_vars

-----------------------------------------------------------------------------
(* Properties of Node2vec.sample and Node2vec.loss (SpecSample) *)

\* sample has returned
HasSample == walk_traces # NoSample
\* positive windows (and rolled negative traces) per walk
PerWalk == args.walk_length - args.window_size + 2
\* the walk a row of pos_traces or neg_traces comes from, and its offset
WalkOf(r) == ((r - 1) \div PerWalk) + 1
OffsetOf(r) == (r - 1) % PerWalk
\* the start node of the r-th row of neg_traces
NegStart(r) ==
    Repeat(Repeat(batch, args.num_walks), args.num_negatives)[WalkOf(r)]

\* C1, as stated: a walk yields walk_length - window_size + 1 positive
\* windows.
C1_WindowsPerWalkAsStated ==
    HasSample =>
        Len(pos_traces) =
            Len(walk_traces) * (args.walk_length - args.window_size + 1)

\* C1, amended: a walk holds walk_length + 1 nodes (the start node and one
\* node per step) and yields walk_length - window_size + 2 positive windows.
C1_WindowsPerWalk ==
    HasSample =>
        /\ \A w \in 1 .. Len(walk_traces) :
               Len(walk_traces[w]) = args.walk_length + 1
        /\ Len(pos_traces) =
               Len(walk_traces) * (args.walk_length - args.window_size + 2)

C1_Witness ==
    /\ HasSample
    /\ args.walk_length > args.window_size
    /\ Len(walk_traces) > 1

\* C2: every positive window is W consecutive nodes of one walk, in the
\* walk's order: the window at offset k of walk w is walk[k..k+W-1].
C2_WindowsContiguous ==
    HasSample =>
        \A r \in 1 .. Len(pos_traces) :
            /\ WalkOf(r) \in 1 .. Len(walk_traces)
            /\ Len(pos_traces[r]) = args.window_size
            /\ \A j \in 1 .. args.window_size :
                   pos_traces[r][j] = walk_traces[WalkOf(r)][OffsetOf(r) + j]

C2_Witness ==
    /\ HasSample
    /\ args.walk_length > args.window_size
    /\ \E v, w \in 1 .. Len(walk_traces) : walk_traces[v] # walk_traces[w]
    /\ \E r \in 1 .. Len(pos_traces) : WalkOf(r) > 1 /\ OffsetOf(r) > 0

\* the edge of id e leads from node u to node v
IsEdge(g, e, u, v) ==
    /\ e \in 0 .. (Len(g.edges) - 1)
    /\ g.edges[e + 1].src = u
    /\ g.edges[e + 1].dst = v

\* C3: one distance vector per positive window, of W-1 entries; entry j of
\* the window at offset k is the length of the edge the walk took from
\* walk[k+j] to walk[k+j+1].
C3_DistancePerWindow ==
    HasSample =>
        /\ Len(pos_dists) = Len(pos_traces)
        /\ \A r \in 1 .. Len(pos_dists) :
               /\ Len(pos_dists[r]) = args.window_size - 1
               /\ \A j \in 1 .. (args.window_size - 1) :
                      LET w == WalkOf(r)
                          s == OffsetOf(r) + j
                          e == walk_eids[w][s]
                      IN /\ IsEdge(args.g, e, walk_traces[w][s],
                                   walk_traces[w][s + 1])
                         /\ pos_dists[r][j] = args.g.edges[e + 1].length

\* C4, as stated: every negative trace has W elements and starts with the
\* start node it was drawn for.
C4_NegStartsWithStartAsStated ==
    HasSample =>
        \A r \in 1 .. Len(neg_traces) :
            /\ Len(neg_traces[r]) = args.window_size
            /\ neg_traces[r][1] = NegStart(r)

\* C4, amended: every negative trace has W elements; of the traces rolled
\* from one drawn row the one at offset 0 starts with the row's start node;
\* every other element, the first element of the traces at offsets >= 1
\* included, is a sampled id in 0..N-1.
C4_NegStartsWithStart ==
    HasSample =>
        \A r \in 1 .. Len(neg_traces) :
            /\ Len(neg_traces[r]) = args.window_size
            /\ OffsetOf(r) = 0 => neg_traces[r][1] = NegStart(r)
            /\ \A j \in 1 .. args.window_size :
                   (OffsetOf(r) > 0 \/ j > 1) =>
                       neg_traces[r][j] \in Nodes(args.g)

C4_Witness ==
    /\ HasSample
    /\ \E r \in 1 .. Len(neg_traces) :
           OffsetOf(r) > 0 /\ neg_traces[r][1] # NegStart(r)

\* C5, as stated: sample returns as many negative traces as positive
\* windows.
C5_ParityAsStated == HasSample => Len(neg_traces) = Len(pos_traces)

\* C5, amended: sample returns num_negatives negative traces per positive
\* window; the two counts are equal exactly when num_negatives = 1.
C5_NegativesPerPositive ==
    HasSample =>
        /\ Len(pos_traces) > 0
        /\ Len(neg_traces) = args.num_negatives * Len(pos_traces)
        /\ (Len(neg_traces) = Len(pos_traces)) <=> (args.num_negatives = 1)

C5_Witness == HasSample /\ args.num_negatives > 1 /\ args.num_walks > 1

\* C6: loss never looks up an embedding for the padding sentinel: the
\* windows that hold it are left out of the loss.
C6_SentinelNotLookedUp == PAD \notin lookups

\* C20: sample on a batch of B start nodes makes exactly B * num_walks
\* walks, num_walks of them for each start node of the batch, and the
\* first node of every walk, and so of the walk's first window, is its
\* start node
C20_WalksPerStartNode ==
    HasSample =>
        /\ Len(walk_traces) = Len(batch) * args.num_walks
        /\ \A b \in 1 .. Len(batch) :
               Cardinality({r \in 1 .. Len(walk_traces) :
                               walk_traces[r][1] = batch[b]}) = args.num_walks
        /\ \A r \in 1 .. Len(walk_traces) :
               /\ walk_traces[r][1] = batch[((r - 1) % Len(batch)) + 1]
               /\ pos_traces[(r - 1) * PerWalk + 1][1] = walk_traces[r][1]

\* two walks were made for each of two start nodes
C20_Witness ==
    /\ HasSample
    /\ Len(batch) = 2
    /\ args.num_walks = 2
    /\ Len(walk_traces) = 4
    /\ walk_traces[3][1] = batch[1]

\* walk w met no node without out-edges: its trace holds no PAD
WalkComplete(w) ==
    \A s \in 1 .. Len(walk_traces[w]) : walk_traces[w][s] # PAD
\* the entries (row, column) of pos_dists that hold step s of walk w
DistEntries(w, s) ==
    {rj \in (1 .. Len(pos_dists)) \X (1 .. (args.window_size - 1)) :
        WalkOf(rj[1]) = w /\ OffsetOf(rj[1]) + rj[2] = s}

\* C21: in every positive walk that meets no dead end, each consecutive
\* pair of nodes is joined by the edge the walk took, a directed edge of
\* the graph, and the length recorded for the step is the length of that
\* edge, also where another edge joins the same two nodes
C21_StepsAreEdges ==
    HasSample =>
        \A w \in 1 .. Len(walk_traces) :
            WalkComplete(w) =>
                \A s \in 1 .. args.walk_length :
                    LET e == walk_eids[w][s]
                    IN /\ IsEdge(args.g, e, walk_traces[w][s],
                                 walk_traces[w][s + 1])
                       /\ DistEntries(w, s) # {}
                       /\ \A rj \in DistEntries(w, s) :
                              pos_dists[rj[1]][rj[2]] =
                                  args.g.edges[e + 1].length

\* a complete walk took the second of two parallel edges, whose length
\* differs from the first one's
C21_Witness ==
    /\ HasSample
    /\ \E w \in 1 .. Len(walk_traces) :
           /\ WalkComplete(w)
           /\ \E s \in 1 .. args.walk_length :
                  \E f \in 0 .. (Len(args.g.edges) - 1) :
                      /\ f # walk_eids[w][s]
                      /\ IsEdge(args.g, f, walk_traces[w][s],
                                walk_traces[w][s + 1])
                      /\ args.g.edges[f + 1].length #
                             args.g.edges[walk_eids[w][s] + 1].length

\* the rows sample draws for a batch: walks, and negative rows
WalksDrawn == Len(batch) * args.num_walks
NegRowsDrawn == WalksDrawn * args.num_negatives

\* C24: sample draws B * num_walks * num_negatives negative rows and rolls
\* each into as many windows as a positive walk, so it returns exactly
\* num_negatives times as many negative traces as positive windows
C24_NegativeRowsRolled ==
    HasSample =>
        /\ Len(pos_traces) = WalksDrawn * PerWalk
        /\ Len(neg_traces) = NegRowsDrawn * PerWalk
        /\ \A n \in 1 .. NegRowsDrawn :
               Cardinality({r \in 1 .. Len(neg_traces) : WalkOf(r) = n}) =
               Cardinality({r \in 1 .. Len(pos_traces) : WalkOf(r) = 1})
        /\ Len(neg_traces) = args.num_negatives * Len(pos_traces)

\* eight negative rows were drawn for two start nodes and each rolled into
\* two windows
C24_Witness ==
    /\ HasSample
    /\ NegRowsDrawn = 8
    /\ PerWalk = 2
    /\ Len(neg_traces) = 16
    /\ Len(pos_traces) = 8

-----------------------------------------------------------------------------
(* Properties of Node2vecModel.train (Spec) *)

\* C7: on a graph with a node without outgoing edges no training step
\* raises.
C7_DeadEndDoesNotFail == HasDeadEnd(args.g) => pc # "IndexError"

\* C8: with walk_length < window_size construction fails, no embedding
\* table exists and nothing is sampled or trained; otherwise construction
\* succeeds and the table has N+1 rows.
C8_ConstructorRefuses ==
    /\ args.walk_length < args.window_size =>
           /\ pc \in {"Idle", "AssertionError"}
           /\ embRows = 0
           /\ ~HasSample
           /\ lookups = {}
           /\ optSteps = 0
    /\ (args.walk_length >= args.window_size /\ pc # "Idle") =>
           /\ pc # "AssertionError"
           /\ embRows = args.g.N + 1

C8_Witness == pc = "AssertionError" /\ args.walk_length < args.window_size

\* C9: train stops only by returning, after exactly `epochs` iterations of
\* its loop and as many scheduler steps, and with epochs = 0 without an
\* optimizer step.
C9_TrainRunsAllEpochs ==
    pc \in {"Done", "IndexError", "ValueError"} =>
        /\ pc = "Done"
        /\ epoch = args.epochs
        /\ schedSteps = args.epochs
        /\ args.epochs = 0 => optSteps = 0

\* C10: the scheduler steps once per epoch, after all the optimizer steps
\* of the epoch, however many batches the epoch has: after k completed
\* epochs it has stepped k times and the optimizer k * len(loader) times.
C10_OneDecayPerEpoch ==
    /\ schedSteps = epoch
    /\ pc \in {"LoopHead", "Done"} =>
           optSteps = schedSteps * NumBatches(args)
    /\ pc = "Evaluated" => epochOptSteps = NumBatches(args)
    /\ pc \in {"InEpoch", "Evaluated", "IndexError", "ValueError"} =>
           /\ epochOptSteps <= NumBatches(args)
           /\ optSteps = schedSteps * NumBatches(args) + epochOptSteps

C10_Witness ==
    /\ pc = "Done"
    /\ schedSteps = 2
    /\ NumBatches(args) > 1
    /\ optSteps = 2 * NumBatches(args)

\* iteration i of train's loop has passed its probe decision (lines 309-315)
EvalDecided(i) ==
    \/ i < epoch
    \/ i = epoch /\ pc \in {"Evaluated", "ValueError"}

\* C11: with eval_steps > 0 and an eval_set, the probe runs in an epoch
\* exactly when that epoch's number is a multiple of eval_steps, and in no
\* other epoch; the epochs may be numbered from 0 (the loop's i) or from 1
\* (the number train prints)
C11_ProbeOnMatchingEpochs ==
    (args.eval_steps > 0 /\ args.eval_set # "None") =>
        \E first \in {0, 1} :
            \A i \in 0 .. args.epochs - 1 :
                EvalDecided(i) =>
                    (i \in evalRuns <=> (i + first) % args.eval_steps = 0)

\* C12: the probe is never invoked when eval_steps <= 0 or eval_set is None,
\* whatever the number of epochs
C12_DisabledProbeNeverRuns ==
    (args.eval_steps <= 0 \/ args.eval_set = "None") => evalRuns = {}

\* a run of MaxEpochs epochs with the probe disabled has ended
C12_Witness ==
    /\ pc = "Done"
    /\ epoch = MaxEpochs
    /\ args.eval_steps > 0
    /\ args.eval_set = "None"
    /\ evalRuns = {}

C14_ProbeFailureConfined ==
    (args.eval_set = "OneClass" /\ evalRuns # {}) => pc # "ValueError"

\* the order of the calls of one pass of _train_step's loop body
BodyOrder == <<"zero_grad", "loss", "backward", "step">>
\* the optimizer steps completed before the epoch in progress
StepsBeforeEpoch == optSteps - epochOptSteps

\* C15: the batches of an epoch are processed one after the other, each as
\* zero_grad, loss, backward, optimizer step in this order, and the loss of
\* a batch reads the embedding after the optimizer steps of all batches
\* before it; only a pass ended by an exception is incomplete
C15_BatchesSequential ==
    /\ \A j \in 1 .. Len(ops) : ops[j].op = BodyOrder[((j - 1) % 4) + 1]
    /\ \A j \in 1 .. Len(ops) :
           ops[j].op = "loss" =>
               ops[j].steps = StepsBeforeEpoch +
                   Cardinality({k \in 1 .. j - 1 : ops[k].op = "step"})
    /\ Len(ops) % 4 # 0 => pc = "IndexError"

\* the third batch of the second epoch has been processed
C15_Witness ==
    /\ pc = "InEpoch"
    /\ epoch = 1
    /\ Len(ops) = 12
    /\ ops[10].steps = ops[6].steps + 1

\* the batches of the epoch in progress: those served and those to come
EpochBatches == served \o order
\* the positions of node v in the epoch's batches
PositionsOf(v) ==
    {p \in (1 .. Len(EpochBatches)) \X (1 .. MaxBatch + 1) :
        p[2] <= Len(EpochBatches[p[1]]) /\ EpochBatches[p[1]][p[2]] = v}

\* C16: in every epoch the node ids 0..N-1 are partitioned into batches:
\* each id is in exactly one batch, a batch has at most batch_size ids, the
\* padding id N is in none, and the walks sampled for a batch start at its
\* ids
C16_EpochPartitionsNodes ==
    pc \in {"InEpoch", "Evaluated", "IndexError", "ValueError"} =>
        /\ \A v \in 0 .. args.g.N - 1 : Cardinality(PositionsOf(v)) = 1
        /\ PositionsOf(args.g.N) = {}
        /\ \A k \in 1 .. Len(EpochBatches) :
               Len(EpochBatches[k]) \in 1 .. args.batch_size
        /\ served # <<>> =>
               /\ batch = served[Len(served)]
               /\ Len(walk_traces) = Len(batch)
               /\ \A r \in 1 .. Len(batch) : walk_traces[r][1] = batch[r]

\* an epoch over three nodes has served a full batch and a shorter last one
C16_Witness ==
    /\ pc = "InEpoch"
    /\ order = <<>>
    /\ Len(served) = 2
    /\ Len(served[1]) = 2
    /\ Len(served[2]) = 1

-----------------------------------------------------------------------------
(* Properties of the decoder (SpecDecoder) *)

\* C17: for a distance d >= 0 and c > 0, the inverse mapping c*(1-s)/s of
\* the heuristic applied to the loss's target s = c/(c+d) gives d back;
\* for d = 0 the target is 1 and the inverse is 0
C17_DecoderRoundTrip ==
    pc = "Decoded" =>
        /\ FracEq(decoded, dist)
        /\ dist.num = 0 => (FracEq(target, Frac(1, 1)) /\ decoded.num = 0)

\* a distance that is not an integer (3/2) was mapped with init_c = 3
C17_Witness ==
    /\ pc = "Decoded"
    /\ dist = Frac(3, 2)
    /\ c = 3
    /\ target = Frac(6, 9)
    /\ decoded.num # 0

\* C18: dot_heuristic returns a value >= 0 for every pair of nodes and
\* never raises
C18_HeuristicNeverRaises == pc # "AttributeError"

-----------------------------------------------------------------------------
(* Properties of run_node2vec (Spec) *)

\* run_node2vec has ended after its training ran all its epochs
RunEnded == pc \in {"Returned", "FileNotFoundError"}

\* C19: a run of run_node2vec with an output path persists the embedding
\* by exactly one write, made after the last epoch and never during
\* training, and the value written is the whole matrix of N+1 rows, the
\* padding row included, as the last optimizer step left it
C19_OneWriteAfterTraining ==
    /\ ~RunEnded => written = <<>>
    /\ (RunEnded /\ output_path # "None") =>
           /\ Len(written) = 1
           /\ written[1] = embVersion
           /\ DOMAIN written[1] = 0 .. args.g.N

\* C22: in every state of a training run the decoder scalar c equals
\* init_c, the value the routing heuristic decodes with: no optimizer
\* step, scheduler step or probe changes it
C22_ScalarStaysInitC ==
    pc \notin {"Idle", "AssertionError"} => c = args.init_c

\* a run with optimizer steps, scheduler steps and probes has ended and
\* saved its embedding
C22_Witness ==
    /\ pc = "Returned"
    /\ optSteps > 1
    /\ schedSteps = MaxEpochs
    /\ evalRuns # {}
    /\ c = DefaultInitC

\* the ids in the rows of a tensor of traces
IdsOf(traces) ==
    UNION {{traces[r][j] : j \in 1 .. Len(traces[r])} :
              r \in 1 .. Len(traces)}

\* C23: the padding id N is in no positive window and in no negative trace
\* that sample returns, so the loss never reads row N of the embedding and
\* the row keeps its initial value through every training step
C23_PaddingRowUntouched ==
    embRows > 0 =>
        /\ args.g.N \notin IdsOf(pos_traces)
        /\ args.g.N \notin IdsOf(neg_traces)
        /\ args.g.N \notin lookups
        /\ embVersion[args.g.N] = 0

\* training has ended after steps that changed every row but the padding
\* row, the highest node id having been drawn as a negative
C23_Witness ==
    /\ pc = "Done"
    /\ optSteps > 1
    /\ \A r \in 0 .. args.g.N - 1 : embVersion[r] > 0
    /\ embVersion[args.g.N] = 0
    /\ \E r \in 1 .. Len(neg_traces) :
           OffsetOf(r) = 0 /\ neg_traces[r][2] = args.g.N - 1

====
